---- MODULE Spec2Model ----
(***************************************************************************)
(* A model of the Elo rating tracker (src/elos/elo_tracker.py) and of the  *)
(* default win probability (src/utils/utils.py).                           *)
(*                                                                         *)
(* Ratings are Python floats in the source.  They are modelled as exact    *)
(* rationals <<numerator, denominator>> in lowest terms, denominator > 0,  *)
(* so that the arithmetic laws of the tracker are checked exactly and not  *)
(* up to rounding.  The transcendental 10 ** x of the logistic curve is    *)
(* modelled by a rational step function that is exact at x = 0 and at the  *)
(* integers (see Pow10).                                                   *)
(***************************************************************************)
EXTENDS Integers, Sequences, FiniteSets, TLC

VARIABLES
    elos_map,       \* self.elos_map: team -> sequence of entries
    initial_elo,    \* self.initial_elo
    K,              \* self.K
    elo_prob_func,  \* self.elo_prob_func (the name of the plugged function)
    ctor_args,      \* the arguments __init__ was called with
    log,            \* rows whose loop body ran to its end, in order
    rows_seen,      \* number of rows handed to add_history so far
    raised,         \* outcome of the latest add_history call
    pending         \* rows of the latest call that were not ingested

vars == <<elos_map, initial_elo, K, elo_prob_func, ctor_args, log, rows_seen,
          raised, pending>>

----------------------------------------------------------------------------
(* Bounds of the model. *)

MaxGames == 3
MaxBatch == 2
MaxSeason == 2
MaxTime == 2

(* Program constants. *)

DefaultInitialElo == 1500
DefaultK == 25

Seasons == 1..MaxSeason
Times == 1..MaxTime

----------------------------------------------------------------------------
(* Fractions standing for the float arithmetic.  The operators return a    *)
(* fraction <<n, d>> with d > 0 that need not be in lowest terms; Float    *)
(* reduces a fraction to the one representation of its value, and every    *)
(* rating stored in an entry or in the tracker is such a value.            *)

Abs(n) == IF n < 0 THEN -n ELSE n

RECURSIVE GCD(_, _)
GCD(a, b) == IF b = 0 THEN a ELSE GCD(b, a % b)

Float(x) ==
    LET g == GCD(Abs(x[1]), x[2]) IN <<x[1] \div g, x[2] \div g>>

R(n) == <<n, 1>>

\* a + b over the least common denominator
RAdd(a, b) ==
    LET l == (a[2] \div GCD(a[2], b[2])) * b[2]
    IN <<a[1] * (l \div a[2]) + b[1] * (l \div b[2]), l>>

RNeg(a) == <<-a[1], a[2]>>

RSub(a, b) == RAdd(a, RNeg(b))

RMul(a, b) == <<a[1] * b[1], a[2] * b[2]>>

\* a / b for b # 0
RDiv(a, b) ==
    IF b[1] > 0 THEN <<a[1] * b[2], a[2] * b[1]>>
    ELSE <<-(a[1] * b[2]), a[2] * (-b[1])>>

RECURSIVE IPow(_, _)
IPow(b, e) == IF e = 0 THEN 1 ELSE b * IPow(b, e - 1)

\* x rounded to the nearest multiple of 1/8, as a number of eighths
\* (halves away from zero, so that Eighths(-x) = -Eighths(x)).
Eighths(x) ==
    LET m == (2 * 8 * Abs(x[1]) + x[2]) \div (2 * x[2])
    IN IF x[1] < 0 THEN -m ELSE m

\* 10 ** x, the one transcendental step of the source.  With
\* Eighths(x) = 8q + r, 0 <= r < 8, the value is 10^q * (4/3)^r, where
\* 10^(1/8) = 1.3335 is taken as 4/3: exact at the integers, increasing, and
\* Pow10(-x) = 1 / Pow10(x).
Pow10(x) ==
    LET e == Eighths(x)
        a == Abs(e)
        p == <<IPow(10, a \div 8) * IPow(4, a % 8), IPow(3, a % 8)>>
    IN IF e < 0 THEN <<p[2], p[1]>> ELSE p

----------------------------------------------------------------------------
(* src/utils/utils.py *)

basic_win_prob(home_elo, away_elo) ==
    RDiv(R(1), RAdd(R(1), Pow10(RDiv(RSub(away_elo, home_elo), R(400)))))

basic_win_prob_for_et(home_elo, away_elo, game_info) ==
    basic_win_prob(home_elo, away_elo)

\* A plugged function that is not the default one: it reads the game record
\* and ignores the ratings (the home side is given 3/5 in season 1, 2/5 after).
season_win_prob(home_elo, away_elo, game_info) ==
    IF game_info.season = 1 THEN <<3, 5>> ELSE <<2, 5>>

ProbFuncs == {"basic_win_prob_for_et", "season_win_prob"}

\* self.elo_prob_func(home_elo, away_elo, game_info)
CallProbFunc(f, home_elo, away_elo, game_info) ==
    IF f = "basic_win_prob_for_et"
    THEN basic_win_prob_for_et(home_elo, away_elo, game_info)
    ELSE season_win_prob(home_elo, away_elo, game_info)

----------------------------------------------------------------------------
(* src/elos/elo_tracker.py *)

\* EloTracker.__init__: the four attributes are stored, nothing is validated.
__init___Validated(teams, an_initial_elo, a_K, a_prob_func) ==
    [elos_map |-> [team \in teams |-> <<>>],
     initial_elo |-> an_initial_elo,
     K |-> IF a_K[1] > 0 THEN a_K ELSE R(DefaultK),
     elo_prob_func |-> a_prob_func]

__init__(teams, an_initial_elo, a_K, a_prob_func) ==
    [elos_map |-> [team \in teams |-> <<>>],
     initial_elo |-> an_initial_elo,
     K |-> a_K,
     elo_prob_func |-> a_prob_func]

\* int(game['homewon'])
BoolToInt(b) == IF b THEN 1 ELSE 0

\* EloTracker._elo_update: <<home_elo, away_elo>> after the game.
_elo_update_AwayByHomeProb(home_elo, away_elo, game_info, home_won, a_K, a_prob_func) ==
    LET home_win_prob == CallProbFunc(a_prob_func, home_elo, away_elo, game_info)
        away_won == 1 - home_won
    IN <<Float(RAdd(home_elo, RMul(a_K, RSub(R(home_won), home_win_prob)))),
         Float(RAdd(away_elo, RMul(a_K, RSub(R(away_won), home_win_prob))))>>

_elo_update(home_elo, away_elo, game_info, home_won, a_K, a_prob_func) ==
    LET home_win_prob == CallProbFunc(a_prob_func, home_elo, away_elo, game_info)
        away_win_prob == RSub(R(1), home_win_prob)
        away_won == 1 - home_won
    IN <<Float(RAdd(home_elo, RMul(a_K, RSub(R(home_won), home_win_prob)))),
         Float(RAdd(away_elo, RMul(a_K, RSub(R(away_won), away_win_prob))))>>

\* self.elos_map[team][-1]
LastEntry_OfAnyTeam(map, team) ==
    LET es == UNION {{map[t][i] : i \in 1..Len(map[t])} : t \in DOMAIN map}
    IN CHOOSE e \in es : \A f \in es : f.game_id <= e.game_id

LastEntry(map, team) == map[team][Len(map[team])]

\* The test of the elif: self.elos_map[team][-1][7] < season
IsNewSeason_AnyChange(last, season) == last.season # season

IsNewSeason(last, season) == last.season < season

\* return self.initial_elo, 0, 0, True
FirstStats_NotFlagged(an_initial_elo) ==
    [elo |-> an_initial_elo, wins |-> 0, losses |-> 0, first_game |-> FALSE]

FirstStats(an_initial_elo) ==
    [elo |-> an_initial_elo, wins |-> 0, losses |-> 0, first_game |-> TRUE]

\* new_elo = old_elo + (self.initial_elo - old_elo) / 3
RevertedElo_AwayFromInitial(old_elo, an_initial_elo) ==
    Float(RAdd(old_elo, RDiv(RSub(old_elo, an_initial_elo), R(3))))

RevertedElo(old_elo, an_initial_elo) ==
    Float(RAdd(old_elo, RDiv(RSub(an_initial_elo, old_elo), R(3))))

\* return new_elo, 0, 0, True
NewSeasonStats_TalliesKept(last, an_initial_elo) ==
    [elo |-> RevertedElo(last.elo_after, an_initial_elo),
     wins |-> last.wins, losses |-> last.losses, first_game |-> TRUE]

NewSeasonStats(last, an_initial_elo) ==
    [elo |-> RevertedElo(last.elo_after, an_initial_elo),
     wins |-> 0, losses |-> 0, first_game |-> TRUE]

\* return self.elos_map[team][-1][3], wins, losses, False
SameSeasonStats(last) ==
    [elo |-> last.elo_after, wins |-> last.wins, losses |-> last.losses,
     first_game |-> FALSE]

\* EloTracker._get_initial_team_stats, for a team that is a key of the map.
_get_initial_team_stats(map, an_initial_elo, team, season) ==
    IF map[team] = <<>>
    THEN FirstStats(an_initial_elo)
    ELSE IF IsNewSeason(LastEntry(map, team), season)
         THEN NewSeasonStats(LastEntry(map, team), an_initial_elo)
         ELSE SameSeasonStats(LastEntry(map, team))

\* The 9-tuple appended to a history, its fields named as the class
\* docstring lists them.
Entry(game_id, timestamp, elo_before, elo_after, won, wins, losses, season, first_game) ==
    [game_id |-> game_id, timestamp |-> timestamp, elo_before |-> elo_before,
     elo_after |-> elo_after, won |-> won, wins |-> wins, losses |-> losses,
     season |-> season, first_game |-> first_game]

\* Lines 157-177 of the loop body: <<h_tuple, a_tuple>> for the row `game`,
\* both derived from the map as it is before either is appended.
GameTuples(map, an_initial_elo, a_K, a_prob_func, game) ==
    LET home == _get_initial_team_stats(map, an_initial_elo, game.hometeam, game.season)
        away == _get_initial_team_stats(map, an_initial_elo, game.visteam, game.season)
        home_won == BoolToInt(game.homewon)
        away_won == 1 - home_won
        updated == _elo_update(home.elo, away.elo, game, home_won, a_K, a_prob_func)
    IN <<Entry(game.gid, game.timestamp, home.elo, updated[1], home_won = 1,
               home.wins + home_won, home.losses + away_won,
               game.season, home.first_game),
         Entry(game.gid, game.timestamp, away.elo, updated[2], away_won = 1,
               away.wins + away_won, away.losses + home_won,
               game.season, away.first_game)>>

\* Lines 178-179: the two appends.
AppendTuples_BothToHome(map, game, tuples) ==
    [map EXCEPT ![game.hometeam] = Append(Append(@, tuples[1]), tuples[2])]

AppendTuples(map, game, tuples) ==
    LET map1 == [map EXCEPT ![game.hometeam] = Append(@, tuples[1])]
    IN [map1 EXCEPT ![game.visteam] = Append(@, tuples[2])]

LoopBody_OrderChecked(map, an_initial_elo, a_K, a_prob_func, game) ==
    IF game.hometeam \notin DOMAIN map \/ game.visteam \notin DOMAIN map
    THEN [map |-> map, raised |-> "KeyError"]
    ELSE IF \E t \in {game.hometeam, game.visteam} :
                /\ map[t] # <<>>
                /\ \/ LastEntry(map, t).season > game.season
                   \/ LastEntry(map, t).timestamp > game.timestamp
         THEN [map |-> map, raised |-> "ValueError"]
         ELSE [map |-> AppendTuples(map, game,
                           GameTuples(map, an_initial_elo, a_K, a_prob_func, game)),
               raised |-> "none"]

LoopBody_HomeAppendedFirst(map, an_initial_elo, a_K, a_prob_func, game) ==
    IF game.hometeam \notin DOMAIN map
    THEN [map |-> map, raised |-> "KeyError"]
    ELSE IF game.visteam \notin DOMAIN map
         THEN [map |-> [map EXCEPT ![game.hometeam] =
                          Append(@, Entry(game.gid, game.timestamp, an_initial_elo,
                                          an_initial_elo, game.homewon, 0, 0,
                                          game.season, FALSE))],
               raised |-> "KeyError"]
         ELSE [map |-> AppendTuples(map, game,
                           GameTuples(map, an_initial_elo, a_K, a_prob_func, game)),
               raised |-> "none"]

\* One iteration of the loop of add_history, over the row `game`.  A team
\* that is no key of elos_map makes self.elos_map[team] raise KeyError in
\* _get_initial_team_stats (called at line 157 for the home team and at line
\* 158 for the away team), before anything is appended.
LoopBody(map, an_initial_elo, a_K, a_prob_func, game) ==
    IF game.hometeam \notin DOMAIN map \/ game.visteam \notin DOMAIN map
    THEN [map |-> map, raised |-> "KeyError"]
    ELSE [map |-> AppendTuples(map, game,
                      GameTuples(map, an_initial_elo, a_K, a_prob_func, game)),
          raised |-> "none"]

\* The loop of add_history over game_df: the rows in order, stopping at the
\* first that raises.  done is the number of rows ingested.
RECURSIVE IterRows(_, _, _, _, _, _)
IterRows(map, an_initial_elo, a_K, a_prob_func, game_df, done) ==
    IF done = Len(game_df)
    THEN [map |-> map, done |-> done, raised |-> "none"]
    ELSE LET r == LoopBody(map, an_initial_elo, a_K, a_prob_func, game_df[done + 1]) IN
         IF r.raised # "none"
         THEN [map |-> r.map, done |-> done, raised |-> r.raised]
         ELSE IterRows(r.map, an_initial_elo, a_K, a_prob_func, game_df, done + 1)

\* EloTracker.add_history(game_df) on the tracker's own state.  (The result
\* of the loop is bound by \E over a singleton so that it is computed once.)
add_history(game_df) ==
    \E r \in {IterRows(elos_map, initial_elo, K, elo_prob_func, game_df, 0)} :
        /\ elos_map' = r.map
        /\ raised' = r.raised
        /\ log' = log \o SubSeq(game_df, 1, r.done)
        /\ pending' = SubSeq(game_df, r.done + 1, Len(game_df))
        /\ rows_seen' = rows_seen + Len(game_df)
        /\ UNCHANGED <<initial_elo, K, elo_prob_func, ctor_args>>

----------------------------------------------------------------------------
(* The inputs. *)

\* A row of game_df: the index gid and the columns add_history reads.
Row(gid, pair, season, timestamp, homewon) ==
    [gid |-> gid, hometeam |-> pair[1], visteam |-> pair[2], season |-> season,
     timestamp |-> timestamp, homewon |-> homewon]

\* The data frame of n rows with the given cells; the index of the rows
\* continues the index of the rows handed in before, so no two rows share it.
Frame(n, c) ==
    [i \in 1..n |-> Row(rows_seen + i, c[i][1], c[i][2], c[i][3], c[i][4])]

\* A call of add_history with a frame of 1..MaxBatch rows over the given
\* column values.  MaxGames caps the number of rows handed in altogether.
AddHistoryOver(PairSet, SeasonSet, TimeSet, WonSet) ==
    \E n \in 1..MaxBatch :
        /\ rows_seen + n <= MaxGames
        /\ \E c \in [1..n -> PairSet \X SeasonSet \X TimeSet \X WonSet] :
               \E game_df \in {Frame(n, c)} : add_history(game_df)

\* The state a constructor call leaves.
Constructed(teams, an_initial_elo, a_K, a_prob_func) ==
    \E t \in {__init__(teams, an_initial_elo, a_K, a_prob_func)} :
        /\ ctor_args = [teams |-> teams, initial_elo |-> an_initial_elo, K |-> a_K,
                        elo_prob_func |-> a_prob_func]
        /\ elos_map = t.elos_map
        /\ initial_elo = t.initial_elo
        /\ K = t.K
        /\ elo_prob_func = t.elo_prob_func
        /\ log = <<>>
        /\ rows_seen = 0
        /\ raised = "none"
        /\ pending = <<>>

----------------------------------------------------------------------------
(* Spec: the default tracker over the roster {A, B}.  Every row names       *)
(* roster teams, A possibly as both sides; seasons arrive in any order.     *)

Roster == {"A", "B"}

Pairs == {<<"A", "B">>, <<"B", "A">>, <<"A", "A">>}

Init == Constructed(Roster, R(DefaultInitialElo), R(DefaultK), "basic_win_prob_for_et")

AddHistory == AddHistoryOver(Pairs, Seasons, {1}, BOOLEAN)

Next == AddHistory

Spec == Init /\ [][Next]_vars

----------------------------------------------------------------------------
(* Vocabulary of the properties. *)

Hist(t) == elos_map[t]

\* The rows ingested by the step from the current state to the next one.
NewRows == SubSeq(log', Len(log) + 1, Len(log'))

\* The game ids of the slots (home first, then away) that team t occupies in
\* the rows, in the order of the rows.
RECURSIVE SlotGids(_, _)
SlotGids(t, rows) ==
    IF rows = <<>> THEN <<>>
    ELSE (IF rows[1].hometeam = t THEN <<rows[1].gid>> ELSE <<>>)
         \o (IF rows[1].visteam = t THEN <<rows[1].gid>> ELSE <<>>)
         \o SlotGids(t, Tail(rows))

GidsOf(h) == [i \in 1..Len(h) |-> h[i].game_id]

RECURSIVE SumLen(_, _)
SumLen(map, ts) ==
    IF ts = {} THEN 0
    ELSE LET t == CHOOSE x \in ts : TRUE IN Len(map[t]) + SumLen(map, ts \ {t})

\* The index of the entry that was the latest of history h when the game of
\* entry i was ingested (0 when there was none): the entry before i, or the
\* one before that when i is the away entry of a game that named the team
\* as both sides.
PrevIdx(h, i) ==
    IF i > 1 /\ h[i - 1].game_id = h[i].game_id THEN i - 2 ELSE i - 1

\* The most recent entry at or before i that is flagged first_game (0 if none).
OpenerIdx(h, i) ==
    LET js == {j \in 1..i : h[j].first_game}
    IN IF js = {} THEN 0 ELSE CHOOSE j \in js : \A k \in js : k <= j

\* Team t was never named as both sides of one game.
NoSelfPlay(t) ==
    \A i \in 1..Len(Hist(t)) : i > 1 => Hist(t)[i - 1].game_id # Hist(t)[i].game_id

----------------------------------------------------------------------------
(* C1.  Ingesting a game record appends one entry per slot of the record    *)
(* (home, then away) at the end of the history of the team in that slot and *)
(* changes nothing else: the entries already present keep their position    *)
(* and values, the other histories and the configuration are unchanged.     *)
(* Hence after n ingested games the histories hold 2n entries and each      *)
(* team's history has one entry per slot the team occupied.                 *)

C1_Step ==
    /\ DOMAIN elos_map' = DOMAIN elos_map
    /\ \A t \in DOMAIN elos_map :
          /\ SubSeq(elos_map'[t], 1, Len(elos_map[t])) = elos_map[t]
          /\ GidsOf(SubSeq(elos_map'[t], Len(elos_map[t]) + 1, Len(elos_map'[t])))
                = SlotGids(t, NewRows)
    /\ UNCHANGED <<initial_elo, K, elo_prob_func>>

C1_Count ==
    /\ SumLen(elos_map, DOMAIN elos_map) = 2 * Len(log)
    /\ \A t \in DOMAIN elos_map : GidsOf(Hist(t)) = SlotGids(t, log)

----------------------------------------------------------------------------
(* C2.  After construction every roster team has an empty history, and the  *)
(* first entry of every history has elo_before = the configured initial     *)
(* rating, first_game = TRUE and tallies counted from 0: wins + losses = 1, *)
(* wins = 1 exactly when the team won.                                      *)

----------------------------------------------------------------------------
(* C3.  Season regression law: an entry appended for a game whose season is *)
(* strictly greater than the season of the team's latest entry at that time *)
(* has elo_before = prev + (initial_elo - prev) / 3, prev being that latest *)
(* entry's elo_after, has first_game = TRUE and has wins + losses = 1.      *)
(* Example: prev = 1600 and initial_elo = 1500 give 4700/3 = 1566.67.       *)

C3_Example ==
    LET last == Entry(1, 1, R(1600), R(1600), TRUE, 1, 0, 1, TRUE)
        stats == _get_initial_team_stats([t \in {"A"} |-> <<last>>], R(1500), "A", 2)
    IN stats = [elo |-> <<4700, 3>>, wins |-> 0, losses |-> 0, first_game |-> TRUE]

C3_SeasonRegression ==
    /\ C3_Example
    /\ \A t \in DOMAIN elos_map : \A i \in 1..Len(Hist(t)) :
          LET j == PrevIdx(Hist(t), i) IN
          (j >= 1 /\ Hist(t)[j].season < Hist(t)[i].season) =>
              LET prev == Hist(t)[j].elo_after
                  e == Hist(t)[i]
              IN /\ e.elo_before = Float(RAdd(prev, RDiv(RSub(initial_elo, prev), R(3))))
                 /\ e.first_game
                 /\ e.wins + e.losses = 1

C3_Witness ==
    \E t \in DOMAIN elos_map : \E i \in 2..Len(Hist(t)) :
        /\ NoSelfPlay(t)
        /\ Hist(t)[i - 1].season < Hist(t)[i].season
        /\ Hist(t)[i - 1].elo_after # initial_elo
        /\ Hist(t)[i].elo_before # Hist(t)[i - 1].elo_after
        /\ Hist(t)[i - 1].wins + Hist(t)[i - 1].losses = 2

----------------------------------------------------------------------------
(* C4.  Same-season carry-over.  As claimed, for any records over roster    *)
(* teams: every entry e after the first whose season is not greater than    *)
(* the season of the entry p right before it has elo_before = p.elo_after,  *)
(* first_game = FALSE and p's tallies with one of wins/losses incremented   *)
(* according to e.won.                                                      *)

CarriedOver(p, e) ==
    /\ e.elo_before = p.elo_after
    /\ ~e.first_game
    /\ e.wins = p.wins + BoolToInt(e.won)
    /\ e.losses = p.losses + BoolToInt(~e.won)

C4_Original ==
    \A t \in DOMAIN elos_map : \A i \in 2..Len(Hist(t)) :
        Hist(t)[i].season <= Hist(t)[i - 1].season
            => CarriedOver(Hist(t)[i - 1], Hist(t)[i])

(* C4 as amended: the same, for every entry e whose preceding entry p       *)
(* belongs to another game record (p and e belong to the same record only   *)
(* when that record names one team as both home and away).                  *)

C4_CarryOver ==
    \A t \in DOMAIN elos_map : \A i \in 2..Len(Hist(t)) :
        (/\ Hist(t)[i].game_id # Hist(t)[i - 1].game_id
         /\ Hist(t)[i].season <= Hist(t)[i - 1].season)
            => CarriedOver(Hist(t)[i - 1], Hist(t)[i])

\* An entry of a lower season than the one before it, carried over.
C4_Witness ==
    \E t \in DOMAIN elos_map : \E i \in 2..Len(Hist(t)) :
        /\ Hist(t)[i].game_id # Hist(t)[i - 1].game_id
        /\ Hist(t)[i].season < Hist(t)[i - 1].season
        /\ Hist(t)[i].wins + Hist(t)[i].losses = 2
        /\ Hist(t)[i].elo_before # initial_elo

----------------------------------------------------------------------------
(* C5.  Tally consistency.  As claimed: for every entry e of every history, *)
(* e.wins + e.losses is the number of entries from the most recent entry    *)
(* flagged first_game (inclusive) up to and including e, and e.wins is the  *)
(* number of those entries with won = TRUE.                                 *)

TalliesCount(h) ==
    \A i \in 1..Len(h) :
        LET j == OpenerIdx(h, i) IN
        /\ j >= 1
        /\ h[i].wins + h[i].losses = i - j + 1
        /\ h[i].wins = Cardinality({k \in j..i : h[k].won})

C5_Original == \A t \in DOMAIN elos_map : TalliesCount(Hist(t))

(* C5 as amended: the same, for every team that no ingested record names as *)
(* both home and away.                                                      *)

C5_TallyConsistency ==
    \A t \in DOMAIN elos_map : NoSelfPlay(t) => TalliesCount(Hist(t))

\* Three games of one team, the last two in a new season.
C5_Witness ==
    \E t \in DOMAIN elos_map :
        /\ NoSelfPlay(t)
        /\ Len(Hist(t)) = 3
        /\ Hist(t)[2].first_game /\ Hist(t)[2].season > Hist(t)[1].season
        /\ Hist(t)[3].wins + Hist(t)[3].losses = 2

----------------------------------------------------------------------------
(* SpecOrder: the default tracker over the roster {A, B, C}; the home team  *)
(* always wins, seasons and timestamps arrive in any order.                 *)

RosterOrder == {"A", "B", "C"}

PairsOrder == {<<"A", "B">>, <<"A", "C">>}

InitOrder ==
    Constructed(RosterOrder, R(DefaultInitialElo), R(DefaultK), "basic_win_prob_for_et")

AddHistoryAnyOrder == AddHistoryOver(PairsOrder, Seasons, Times, {TRUE})

NextOrder == AddHistoryAnyOrder

SpecOrder == InitOrder /\ [][NextOrder]_vars

Plays(t, row) == row.hometeam = t \/ row.visteam = t

\* The games of team t were ingested in non-decreasing timestamp and season.
IngestedInOrder(t) ==
    \A i \in 1..Len(log) : \A j \in i..Len(log) :
        (Plays(t, log[i]) /\ Plays(t, log[j])) =>
            /\ log[i].timestamp <= log[j].timestamp
            /\ log[i].season <= log[j].season

Monotonic(h) ==
    \A i \in 1..(Len(h) - 1) :
        /\ h[i].timestamp <= h[i + 1].timestamp
        /\ h[i].season <= h[i + 1].season

(* C6.  Monotonic history: the history of every team whose games were       *)
(* ingested in non-decreasing timestamp and season order is non-decreasing  *)
(* in timestamp and in season.  The tracker checks no ordering: every row   *)
(* handed in, in whatever order, was ingested without error and has its two *)
(* entries.                                                                 *)

C6_MonotonicHistory ==
    /\ \A t \in DOMAIN elos_map : IngestedInOrder(t) => Monotonic(Hist(t))
    /\ raised = "none" /\ pending = <<>> /\ Len(log) = rows_seen
    /\ \A t \in DOMAIN elos_map : GidsOf(Hist(t)) = SlotGids(t, log)

\* B's two games came in order; between them A played C in an earlier season
\* and at an earlier time than its latest entry.
C6_Witness ==
    /\ Len(Hist("B")) = 2 /\ IngestedInOrder("B")
    /\ Hist("B")[1].season < Hist("B")[2].season
    /\ Hist("B")[1].timestamp < Hist("B")[2].timestamp
    /\ Len(Hist("A")) = 3 /\ ~Monotonic(Hist("A"))

----------------------------------------------------------------------------
(* SpecConfig: trackers over the roster {A, B} constructed with any of the  *)
(* K factors, initial ratings and probability functions below; A is at home *)
(* to B in every game.                                                      *)

KChoices == {R(DefaultK), R(-DefaultK)}

InitialEloChoices == {R(DefaultInitialElo), R(-DefaultInitialElo)}

PairsConfig == {<<"A", "B">>}

InitConfig ==
    \E a_K \in KChoices : \E an_initial_elo \in InitialEloChoices :
        \E a_prob_func \in ProbFuncs :
            Constructed(Roster, an_initial_elo, a_K, a_prob_func)

AddHistoryConfigured == AddHistoryOver(PairsConfig, Seasons, {1}, BOOLEAN)

NextConfig == AddHistoryConfigured

SpecConfig == InitConfig /\ [][NextConfig]_vars

\* The entry of history h that belongs to game record g.
EntryOf(h, g) == h[CHOOSE i \in 1..Len(h) : h[i].game_id = g.gid]

HomeEntry(g) == EntryOf(Hist(g.hometeam), g)

AwayEntry(g) == EntryOf(Hist(g.visteam), g)

(* C7.  Zero-sum rating update: for every ingested game, with p_home the    *)
(* value of the tracker's probability function at the two starting ratings, *)
(* home.elo_after = home.elo_before + K * (home_won - p_home) and           *)
(* away.elo_after = away.elo_before + K * ((1 - home_won) - (1 - p_home)),  *)
(* so the two changes add up to zero whatever function is plugged in.       *)
(* Example: fresh teams, initial rating 1500, K = 25, home wins: p_home is  *)
(* 1/2, home ends at 1512.5 with 1-0, away at 1487.5 with 0-1.              *)

C7_Example(g) ==
    (/\ initial_elo = R(1500) /\ K = R(25) /\ elo_prob_func = "basic_win_prob_for_et"
     /\ HomeEntry(g).first_game /\ HomeEntry(g).elo_before = R(1500)
     /\ AwayEntry(g).first_game /\ AwayEntry(g).elo_before = R(1500)
     /\ g.homewon)
    => /\ Float(CallProbFunc(elo_prob_func, R(1500), R(1500), g)) = <<1, 2>>
       /\ HomeEntry(g).elo_after = <<3025, 2>>
       /\ HomeEntry(g).wins = 1 /\ HomeEntry(g).losses = 0
       /\ AwayEntry(g).elo_after = <<2975, 2>>
       /\ AwayEntry(g).wins = 0 /\ AwayEntry(g).losses = 1

C7_ZeroSumUpdate ==
    \A n \in 1..Len(log) :
        LET g == log[n]
            h == HomeEntry(g)
            a == AwayEntry(g)
            w == BoolToInt(g.homewon)
            p == CallProbFunc(elo_prob_func, h.elo_before, a.elo_before, g)
        IN /\ h.elo_after = Float(RAdd(h.elo_before, RMul(K, RSub(R(w), p))))
           /\ a.elo_after =
                Float(RAdd(a.elo_before, RMul(K, RSub(R(1 - w), RSub(R(1), p)))))
           /\ Float(RSub(h.elo_after, h.elo_before))
                = Float(RNeg(RSub(a.elo_after, a.elo_before)))
           /\ C7_Example(g)

\* The example's game, followed by a game whose probability is not 1/2.
C7_Witness ==
    /\ Len(log) >= 2
    /\ K = R(25) /\ initial_elo = R(1500) /\ elo_prob_func = "basic_win_prob_for_et"
    /\ log[1].homewon /\ HomeEntry(log[1]).elo_after = <<3025, 2>>
    /\ Float(CallProbFunc(elo_prob_func, HomeEntry(log[2]).elo_before,
                          AwayEntry(log[2]).elo_before, log[2])) # <<1, 2>>
    /\ HomeEntry(log[2]).elo_after # HomeEntry(log[2]).elo_before

(* C9.  As claimed: a tracker is never constructed with an invalid K (for   *)
(* instance a negative one), so no game is ever ingested with such a K.     *)

----------------------------------------------------------------------------
(* SpecUnknown: the default tracker over the roster {A, B}; rows may name   *)
(* the team X, which is not in the roster, as home, as away or as both.     *)

PairsUnknown ==
    {<<"A", "B">>, <<"B", "A">>, <<"A", "X">>, <<"X", "B">>, <<"X", "X">>}

InitUnknown == Init

AddHistoryUnknown == AddHistoryOver(PairsUnknown, {1}, {1}, BOOLEAN)

NextUnknown == AddHistoryUnknown

SpecUnknown == InitUnknown /\ [][NextUnknown]_vars

NamesUnknownTeam(row) ==
    row.hometeam \notin ctor_args.teams \/ row.visteam \notin ctor_args.teams

\* The number of entries, over all histories, that carry the game id.
EntriesWithGid(gid) ==
    LET Count(t) == Cardinality({i \in 1..Len(Hist(t)) : Hist(t)[i].game_id = gid})
        RECURSIVE Sum(_)
        Sum(ts) == IF ts = {} THEN 0
                   ELSE LET t == CHOOSE x \in ts : TRUE IN Count(t) + Sum(ts \ {t})
    IN Sum(DOMAIN elos_map)

(* C8.  A row that names a team outside the roster makes add_history fail:  *)
(* no history is created for that team and no entry at all is appended for  *)
(* that row, nor for the rows after it, while the rows before it in the     *)
(* frame stay ingested.  Hence every game has both of its entries in the    *)
(* histories or none.                                                       *)

C8_UnknownTeam ==
    /\ DOMAIN elos_map = ctor_args.teams
    /\ \A n \in 1..Len(log) :
          ~NamesUnknownTeam(log[n]) /\ EntriesWithGid(log[n].gid) = 2
    /\ \A gid \in 1..rows_seen : EntriesWithGid(gid) \in {0, 2}
    /\ raised \in {"none", "KeyError"}
    /\ raised = "none" <=> pending = <<>>
    /\ raised = "KeyError" =>
          /\ NamesUnknownTeam(pending[1])
          /\ \A n \in 1..Len(pending) : EntriesWithGid(pending[n].gid) = 0
          /\ \A n \in 1..Len(log) : log[n].gid < pending[1].gid

\* A frame of two rows whose second row names X as the away team of A: the
\* call failed, the first row stays ingested, A has no entry for the second.
C8_Witness ==
    /\ raised = "KeyError"
    /\ pending[1].hometeam = "A" /\ pending[1].visteam = "X"
    /\ log # <<>> /\ log[Len(log)].gid = pending[1].gid - 1
    /\ rows_seen = pending[1].gid
    /\ EntriesWithGid(log[Len(log)].gid) = 2

----------------------------------------------------------------------------
(* SpecSwap: the default tracker over the roster {A, B, C, D}; the games    *)
(* A-B and C-D have no team in common, C-A has one in common with each.     *)
(* The home team always wins; seasons arrive in any order.                  *)

RosterSwap == {"A", "B", "C", "D"}

PairsSwap == {<<"A", "B">>, <<"C", "D">>, <<"C", "A">>}

InitSwap ==
    Constructed(RosterSwap, R(DefaultInitialElo), R(DefaultK), "basic_win_prob_for_et")

AddHistorySwap == AddHistoryOver(PairsSwap, Seasons, {1}, {TRUE})

NextSwap == AddHistorySwap

SpecSwap == InitSwap /\ [][NextSwap]_vars

ShareTeam(r1, r2) == {r1.hometeam, r1.visteam} \cap {r2.hometeam, r2.visteam} # {}

\* The orderings of the ingested records, as sequences of indices into log,
\* in which every team's own games keep their relative order: the record put
\* next is one that none of the records still to be placed, and ingested
\* before it, shares a team with.  `left` is the set of indices to place.
RECURSIVE TeamOrderKeeping(_)
TeamOrderKeeping(left) ==
    IF left = {} THEN {<<>>}
    ELSE UNION { {<<x>> \o p : p \in TeamOrderKeeping(left \ {x})} :
                 x \in {y \in left :
                          \A z \in left : z < y => ~ShareTeam(log[z], log[y])} }

\* The histories after one add_history call with the rows, on a tracker
\* constructed like this one.
Replay(rows) ==
    IterRows(__init__(ctor_args.teams, ctor_args.initial_elo, ctor_args.K,
                      ctor_args.elo_prob_func).elos_map,
             initial_elo, K, elo_prob_func, rows, 0).map

(* C10.  Cross-team interleaving does not matter: ingesting the same game   *)
(* records in any ordering that keeps every team's own games in the same    *)
(* relative order gives the same histories, entry for entry.  In particular *)
(* adjacent games with no team in common can be swapped, and one call with  *)
(* all the rows gives the histories that the calls made so far have given.  *)

C10_Interleaving ==
    \A p \in TeamOrderKeeping(1..Len(log)) :
        Replay([i \in 1..Len(log) |-> log[p[i]]]) = elos_map

\* C-D then A-B were ingested, then C-A in a new season for both: the first
\* two can be swapped.
C10_Witness ==
    /\ Len(log) = 3
    /\ ~ShareTeam(log[1], log[2])
    /\ ShareTeam(log[1], log[3]) /\ ShareTeam(log[2], log[3])
    /\ log[1].season < log[3].season
    /\ <<2, 1, 3>> \in TeamOrderKeeping(1..3)
    /\ Replay(<<log[2], log[1], log[3]>>) = elos_map

====
